---------------------------- MODULE Spec2Model ----------------------------
(***************************************************************************)
(* A model of RouterProviderExtra (src/src/angular-router-extra.js): the   *)
(* route configuration builder that runs a chain of transformers over each *)
(* route and either hands it to the native router at once or keeps it in   *)
(* pendingRoutes until registerRoutes.                                     *)
(*                                                                         *)
(* Representation.                                                         *)
(*  - A JavaScript string is a sequence of one-character strings, so that  *)
(*    split, substr, toUpperCase and the placeholder regular expression    *)
(*    are computed character by character.                                 *)
(*  - undefined is the value Undef, a one-element sequence that no         *)
(*    character string equals.                                             *)
(*  - Route objects live in heap, a sequence of records over Keys; a       *)
(*    route value is a reference (an index into heap) or StrPrim, the      *)
(*    primitive string that Object.prototype.toString returns.  Objects    *)
(*    are shared by reference exactly as in the code: pendingRoutes and    *)
(*    the registrar hold references, not copies.                           *)
(*  - calls is the sequence of invocations of routerProvider.when, each    *)
(*    with the path argument and the route argument (a reference: what the *)
(*    registrar sees of the route is the content of heap at that time).    *)
(*  - sid numbers the successful submissions (calls of addRoute that       *)
(*    return), so that queue entries and registrar invocations can be      *)
(*    traced back to the submission they come from.                        *)
(***************************************************************************)
EXTENDS Naturals, Sequences, FiniteSets

(***************************************************************************)
(* Strings                                                                 *)
(***************************************************************************)
Undef == <<"undefined">>

LowerCase == <<"a", "b", "c", "d", "e", "f", "g", "h", "i", "j", "k", "l", "m",
               "n", "o", "p", "q", "r", "s", "t", "u", "v", "w", "x", "y", "z">>
UpperCase == <<"A", "B", "C", "D", "E", "F", "G", "H", "I", "J", "K", "L", "M",
               "N", "O", "P", "Q", "R", "S", "T", "U", "V", "W", "X", "Y", "Z">>

\* String.prototype.toUpperCase on one character.
toUpperCase(c) ==
    IF \E i \in 1..Len(LowerCase) : LowerCase[i] = c
    THEN UpperCase[CHOOSE i \in 1..Len(LowerCase) : LowerCase[i] = c]
    ELSE c

\* part.substr(0, 1).toUpperCase() + part.substr(1)
UpperFirst(part) ==
    IF part = <<>> THEN <<>>
    ELSE <<toUpperCase(part[1])>> \o SubSeq(part, 2, Len(part))

\* Whether the separator d occurs in s at position i.
OccursAt(s, d, i) ==
    /\ i + Len(d) - 1 <= Len(s)
    /\ \A k \in 1..Len(d) : s[i + k - 1] = d[k]

\* String.prototype.split(d) from position i on, cur being the segment so far.
RECURSIVE SplitFrom(_, _, _, _)
SplitFrom(s, d, i, cur) ==
    IF i > Len(s) THEN <<cur>>
    ELSE IF OccursAt(s, d, i)
         THEN <<cur>> \o SplitFrom(s, d, i + Len(d), <<>>)
         ELSE SplitFrom(s, d, i + 1, Append(cur, s[i]))

\* String.prototype.split: an empty separator splits into characters, and
\* the empty string then splits into no segment at all.
Split(s, d) ==
    IF d = <<>> THEN [i \in 1..Len(s) |-> <<s[i]>>]
    ELSE SplitFrom(s, d, 1, <<>>)

IsSpace(c) == c = " "

\* The length of the run of white space of s that starts at position i.
RECURSIVE SpaceRun(_, _)
SpaceRun(s, i) ==
    IF i <= Len(s) /\ IsSpace(s[i]) THEN 1 + SpaceRun(s, i + 1) ELSE 0

\* The matches of /{\s*(.+?)\s*}/ that start at position i, as pairs
\* <<w, n>>: w characters for the first \s*, n for the group.  The last \s*
\* is greedy and a space is not a brace, so it takes the whole run.
BraceMatches(s, i) ==
    IF i > Len(s) \/ s[i] # "{" THEN {}
    ELSE {m \in (0..SpaceRun(s, i + 1)) \X (1..Len(s)) :
            LET e == i + m[1] + m[2] + 1 IN
            LET close == e + SpaceRun(s, e) IN
            close <= Len(s) /\ s[close] = "}"}

\* The match the regular expression engine finds first: the first \s* is
\* greedy (longest first), the group is lazy (shortest first).
BraceMatch(s, i) ==
    CHOOSE m \in BraceMatches(s, i) :
        \A o \in BraceMatches(s, i) :
            \/ m[1] > o[1]
            \/ m[1] = o[1] /\ m[2] <= o[2]

\* s.replace(/{\s*(.+?)\s*}/g, ':$1') from position i on.
RECURSIVE ReplaceFrom(_, _)
ReplaceFrom(s, i) ==
    IF i > Len(s) THEN <<>>
    ELSE IF BraceMatches(s, i) = {}
         THEN <<s[i]>> \o ReplaceFrom(s, i + 1)
         ELSE LET m == BraceMatch(s, i) IN
              LET g == i + m[1] + 1 IN
              LET e == g + m[2] IN
              <<":">> \o SubSeq(s, g, e - 1)
                      \o ReplaceFrom(s, e + SpaceRun(s, e) + 1)

\* s.replace(/{\s*(.+?)\s*}/, ':$1'), the regular expression without its g
\* flag: the first match only.
ReplacePlaceholders_First(s) ==
    LET starts == {i \in 1..Len(s) : BraceMatches(s, i) # {}} IN
    IF starts = {} THEN s
    ELSE LET i == CHOOSE j \in starts : \A o \in starts : j <= o IN
         LET m == BraceMatch(s, i) IN
         LET g == i + m[1] + 1 IN
         LET e == g + m[2] IN
         SubSeq(s, 1, i - 1) \o <<":">> \o SubSeq(s, g, e - 1)
            \o SubSeq(s, e + SpaceRun(s, e) + 1, Len(s))

ReplacePlaceholders(s) == ReplaceFrom(s, 1)


(***************************************************************************)
(* Route objects                                                           *)
(***************************************************************************)
\* The keys of a route that the builder or its transformers read or write;
\* title stands for the opaque payload keys.
Keys == {"path", "name", "controller", "title"}

\* An object with none of the keys.
NoKeys == [k \in Keys |-> Undef]

\* The primitive string "[object Function]", the only route value that is
\* not a reference into heap.
StrPrim == 0

\* route[k]: a property of a primitive string that is not an index is
\* undefined.
Get(h, route, k) == IF route = StrPrim THEN Undef ELSE h[route][k]

\* What the registrar sees of the route it is handed.
Content(h, route) == IF route = StrPrim THEN NoKeys ELSE h[route]

\* angular.extend(dst, src) on the modelled keys: every key of src is
\* assigned; src is a partial record, Undef standing for a key it lacks.
Extend(dst, src) == [k \in Keys |-> IF src[k] # Undef THEN src[k] ELSE dst[k]]

(***************************************************************************)
(* Transformers                                                            *)
(***************************************************************************)
Dot == <<".">>
Ctrl == <<"C", "t", "r", "l">>
PascalCase == <<"P", "a", "s", "c", "a", "l", "C", "a", "s", "e">>
camelCase == <<"c", "a", "m", "e", "l", "C", "a", "s", "e">>

\* The i-th argument after the route: undefined past the end of the list.
Arg(list, i) == IF i <= Len(list) THEN list[i] ELSE Undef

OrDefault(v, d) == IF v = Undef THEN d ELSE v

Returned(h, route) == [heap |-> h, route |-> route, err |-> ""]
Thrown(h, route, e) == [heap |-> h, route |-> route, err |-> e]

\* predefinedTransformers['SymfonyPlaceholders']: route.path.replace throws
\* a TypeError when route.path is undefined.
SymfonyPlaceholders(h, route) ==
    IF Get(h, route, "path") = Undef THEN Thrown(h, route, "TypeError")
    ELSE Returned([h EXCEPT ![route]["path"] = ReplacePlaceholders(@)], route)

\* A ControllerName that puts every part, the first one too, in upper case
\* whatever the naming strategy.
RECURSIVE ControllerName_UpperFirst(_, _, _)
ControllerName_UpperFirst(parts, namingStrategy, n) ==
    IF n = 0 THEN <<>>
    ELSE ControllerName_UpperFirst(parts, namingStrategy, n - 1)
         \o UpperFirst(parts[n])

\* The controller name built from the first n parts.
RECURSIVE ControllerName(_, _, _)
ControllerName(parts, namingStrategy, n) ==
    IF n = 0 THEN <<>>
    ELSE ControllerName(parts, namingStrategy, n - 1)
         \o (IF namingStrategy = camelCase /\ n = 1
             THEN parts[n] ELSE UpperFirst(parts[n]))

\* A ControllersFromNames that takes any naming strategy it does not know
\* for PascalCase.
ControllersFromNames_AnyStrategy(h, route, list) ==
    LET nameDelimiter == OrDefault(Arg(list, 1), Dot)
        namingStrategy == OrDefault(Arg(list, 2), PascalCase)
        suffix == OrDefault(Arg(list, 3), Ctrl)
        parts == Split(Get(h, route, "name"), nameDelimiter)
    IN  IF Get(h, route, "name") = Undef THEN Returned(h, route)
        ELSE Returned([h EXCEPT ![route]["controller"] =
                          ControllerName(parts, namingStrategy, Len(parts)) \o suffix],
                      route)

\* A ControllersFromNames that takes a route without a name for one with
\* the empty name.
ControllersFromNames_Unnamed(h, route, list) ==
    LET nameDelimiter == OrDefault(Arg(list, 1), Dot)
        namingStrategy == OrDefault(Arg(list, 2), PascalCase)
        suffix == OrDefault(Arg(list, 3), Ctrl)
        parts == Split(OrDefault(Get(h, route, "name"), <<>>), nameDelimiter)
    IN  IF Len(parts) > 0 /\ namingStrategy \notin {camelCase, PascalCase}
        THEN Thrown(h, route, "UnknownNamingStrategy")
        ELSE Returned([h EXCEPT ![route]["controller"] =
                          ControllerName(parts, namingStrategy, Len(parts)) \o suffix],
                      route)

\* predefinedTransformers['ControllersFromNames']
ControllersFromNames(h, route, list) ==
    LET nameDelimiter == OrDefault(Arg(list, 1), Dot)
        namingStrategy == OrDefault(Arg(list, 2), PascalCase)
        suffix == OrDefault(Arg(list, 3), Ctrl)
        parts == Split(Get(h, route, "name"), nameDelimiter)
    IN  IF Get(h, route, "name") = Undef THEN Returned(h, route)
        ELSE IF Len(parts) > 0 /\ namingStrategy \notin {camelCase, PascalCase}
        THEN Thrown(h, route, "UnknownNamingStrategy")
        ELSE Returned([h EXCEPT ![route]["controller"] =
                          ControllerName(parts, namingStrategy, Len(parts)) \o suffix],
                      route)

\* A transformer of the application that works in place:
\*   function (route, name) { route.name = name; return route; }
\* (an assignment to a property of a primitive is dropped).
SetName(h, route, list) ==
    IF route = StrPrim THEN Returned(h, route)
    ELSE Returned([h EXCEPT ![route]["name"] = Arg(list, 1)], route)

\* A transformer of the application that returns a new definition:
\*   function (route) { var c = {}; for (var k in route) c[k] = route[k]; return c; }
Clone(h, route) == Returned(Append(h, Content(h, route)), Len(h) + 1)

\* callable.apply(callable, parameters) with parameters = [route] ++ list.
\* "toString" is Object.prototype.toString, which ignores its arguments and
\* returns "[object Function]" for the function it is applied to.
Apply(callable, h, route, list) ==
    CASE callable = "SymfonyPlaceholders" -> SymfonyPlaceholders(h, route)
      [] callable = "ControllersFromNames" -> ControllersFromNames(h, route, list)
      [] callable = "setName" -> SetName(h, route, list)
      [] callable = "clone" -> Clone(h, route)
      [] callable = "toString" -> Returned(h, StrPrim)

\* predefinedTransformers[name] for a string name: the two own properties,
\* the properties the object literal inherits from Object.prototype
\* (toString stands for them), and undefined for any other name.
PredefinedTransformer(name) ==
    CASE name = "SymfonyPlaceholders" -> "SymfonyPlaceholders"
      [] name = "ControllersFromNames" -> "ControllersFromNames"
      [] name = "toString" -> "toString"
      [] OTHER -> "undefined"

\* The names the code defines as pre-defined transformers.
BuiltInNames == {"SymfonyPlaceholders", "ControllersFromNames"}

\* The parameters of a transformer entry: not given (undefined), or a list.
NoParameters == [given |-> FALSE, list |-> <<>>]
Parameters(list) == [given |-> TRUE, list |-> list]

(***************************************************************************)
(* The builder                                                             *)
(***************************************************************************)
VARIABLES
    heap,                    \* the route objects of the application
    transformers,            \* line 15
    pendingRoutes,           \* line 16, each entry with the submission it is
    delayRouteRegistration,  \* line 17
    calls,                   \* the invocations of routerProvider.when so far
    submitted,               \* the number of submissions that returned
    last,                    \* the operation that ran last, its arguments, the
                             \* exception that left it and the number of
                             \* registrar invocations it made
    run,                     \* the deferred run under way, if any
    discarded,               \* the submissions clearPendingRoutes dropped
    asked                    \* for every queued route, the path when was
                             \* called with

vars == <<heap, transformers, pendingRoutes, delayRouteRegistration, calls,
          submitted, last, run, discarded, asked>>

\* The builder's state as one value, for the functions below; err is the
\* exception that left the operation, "" when it returned.
Builder ==
    [heap |-> heap, transformers |-> transformers,
     pendingRoutes |-> pendingRoutes, delay |-> delayRouteRegistration,
     calls |-> calls, submitted |-> submitted, asked |-> asked, err |-> ""]

\* runTransformersOnRoute, from the i-th transformer on.
RECURSIVE RunFrom(_, _, _, _)
RunFrom(ts, i, h, route) ==
    IF i > Len(ts) THEN Returned(h, route)
    ELSE LET transformer == ts[i]
             parameters == IF transformer.parameters.given
                           THEN transformer.parameters.list ELSE <<>>
             r == Apply(transformer.callable, h, route, parameters)
         IN  IF r.err # "" THEN r ELSE RunFrom(ts, i + 1, r.heap, r.route)

\* A runTransformersOnRoute that starts from the transformer added last.
RECURSIVE RunDownFrom(_, _, _, _)
RunDownFrom(ts, i, h, route) ==
    IF i < 1 THEN Returned(h, route)
    ELSE LET transformer == ts[i]
             parameters == IF transformer.parameters.given
                           THEN transformer.parameters.list ELSE <<>>
             r == Apply(transformer.callable, h, route, parameters)
         IN  IF r.err # "" THEN r ELSE RunDownFrom(ts, i - 1, r.heap, r.route)

runTransformersOnRoute_LastFirst(ts, h, route) ==
    RunDownFrom(ts, Len(ts), h, route)

runTransformersOnRoute(ts, h, route) == RunFrom(ts, 1, h, route)

\* registerRoute: routerProvider.when(route.path, route).
registerRoute(b, route, sid) ==
    [b EXCEPT !.calls = Append(@, [path |-> Get(b.heap, route, "path"),
                                   route |-> route,
                                   sid |-> sid])]

\* A clearPendingRoutes that keeps the queue.
clearPendingRoutes_Keeps(b) == b

\* clearPendingRoutes (the inner function).
clearPendingRoutes(b) == [b EXCEPT !.pendingRoutes = <<>>, !.asked = <<>>]

\* The loop of registerRoutes over the entries from the i-th on.
RECURSIVE RegisterFrom(_, _)
RegisterFrom(b, i) ==
    IF i > Len(b.pendingRoutes) THEN b
    ELSE RegisterFrom(registerRoute(b, b.pendingRoutes[i].route,
                                    b.pendingRoutes[i].sid), i + 1)

\* A registerRoutes that walks the queue from its end.
RECURSIVE RegisterDownFrom(_, _)
RegisterDownFrom(b, i) ==
    IF i < 1 THEN b
    ELSE RegisterDownFrom(registerRoute(b, b.pendingRoutes[i].route,
                                        b.pendingRoutes[i].sid), i - 1)

registerRoutes_Backwards(b) ==
    IF Len(b.pendingRoutes) > 0
    THEN clearPendingRoutes(RegisterDownFrom(b, Len(b.pendingRoutes)))
    ELSE b

\* A registerRoutes that runs the transformers on every queued route
\* before it hands it to the registrar.
RECURSIVE TransformAndRegisterFrom(_, _)
TransformAndRegisterFrom(b, i) ==
    IF i > Len(b.pendingRoutes) THEN b
    ELSE LET t == RunFrom(b.transformers, 1, b.heap, b.pendingRoutes[i].route)
         IN  TransformAndRegisterFrom(
                registerRoute([b EXCEPT !.heap = t.heap], t.route,
                              b.pendingRoutes[i].sid), i + 1)

registerRoutes_Transforms(b) ==
    IF Len(b.pendingRoutes) > 0
    THEN clearPendingRoutes(TransformAndRegisterFrom(b, 1))
    ELSE b

\* A registerRoutes that leaves the queue as it is.
registerRoutes_KeepsQueue(b) ==
    IF Len(b.pendingRoutes) > 0 THEN RegisterFrom(b, 1) ELSE b

registerRoutes(b) ==
    IF Len(b.pendingRoutes) > 0 THEN clearPendingRoutes(RegisterFrom(b, 1))
    ELSE b

\* The loop of updateRoute over the entries from the i-th on.
RECURSIVE UpdateFrom(_, _, _, _)
UpdateFrom(b, routeName, updatedRoute, i) ==
    IF i > Len(b.pendingRoutes) THEN b
    ELSE LET initialRoute == b.pendingRoutes[i].route IN
         UpdateFrom(
            IF /\ Get(b.heap, initialRoute, "name") # Undef
               /\ Get(b.heap, initialRoute, "name") = routeName
            THEN [b EXCEPT !.heap[initialRoute] = Extend(@, updatedRoute)]
            ELSE b,
            routeName, updatedRoute, i + 1)

\* An updateRoute that stops at the first route of that name.
RECURSIVE UpdateFirstFrom(_, _, _, _)
UpdateFirstFrom(b, routeName, updatedRoute, i) ==
    IF i > Len(b.pendingRoutes) THEN b
    ELSE LET initialRoute == b.pendingRoutes[i].route IN
         IF /\ Get(b.heap, initialRoute, "name") # Undef
            /\ Get(b.heap, initialRoute, "name") = routeName
         THEN [b EXCEPT !.heap[initialRoute] = Extend(@, updatedRoute)]
         ELSE UpdateFirstFrom(b, routeName, updatedRoute, i + 1)

updateRoute_FirstOnly(b, routeName, updatedRoute) ==
    UpdateFirstFrom(b, routeName, updatedRoute, 1)

updateRoute(b, routeName, updatedRoute) ==
    IF Len(b.pendingRoutes) > 0 THEN UpdateFrom(b, routeName, updatedRoute, 1)
    ELSE b

\* An addRoute that registers at once whatever the mode.
addRoute_IgnoresDelay(b, route) ==
    LET t == IF Len(b.transformers) > 0
             THEN runTransformersOnRoute(b.transformers, b.heap, route)
             ELSE Returned(b.heap, route)
        c == [b EXCEPT !.heap = t.heap, !.submitted = @ + 1]
    IN  IF t.err # "" THEN [b EXCEPT !.heap = t.heap, !.err = t.err]
        ELSE registerRoute(c, t.route, c.submitted)

\* An addRoute that runs the transformers and then goes on with the route
\* it was given instead of the one they returned.
addRoute_DropsResult(b, route) ==
    LET t == IF Len(b.transformers) > 0
             THEN runTransformersOnRoute(b.transformers, b.heap, route)
             ELSE Returned(b.heap, route)
        c == [b EXCEPT !.heap = t.heap, !.submitted = @ + 1]
    IN  IF t.err # "" THEN [b EXCEPT !.heap = t.heap, !.err = t.err]
        ELSE IF ~b.delay THEN registerRoute(c, route, c.submitted)
        ELSE [c EXCEPT !.pendingRoutes =
                          Append(@, [route |-> route, sid |-> c.submitted])]

\* An addRoute that puts the route at the head of the queue.
addRoute_QueuesFirst(b, route) ==
    LET t == IF Len(b.transformers) > 0
             THEN runTransformersOnRoute(b.transformers, b.heap, route)
             ELSE Returned(b.heap, route)
        c == [b EXCEPT !.heap = t.heap, !.submitted = @ + 1]
    IN  IF t.err # "" THEN [b EXCEPT !.heap = t.heap, !.err = t.err]
        ELSE IF ~b.delay THEN registerRoute(c, t.route, c.submitted)
        ELSE [c EXCEPT !.pendingRoutes =
                          <<[route |-> t.route, sid |-> c.submitted]>> \o @]

\* addRoute: the transformers, then the registrar or the queue.
addRoute(b, route) ==
    LET t == IF Len(b.transformers) > 0
             THEN runTransformersOnRoute(b.transformers, b.heap, route)
             ELSE Returned(b.heap, route)
        c == [b EXCEPT !.heap = t.heap, !.submitted = @ + 1]
    IN  IF t.err # "" THEN [b EXCEPT !.heap = t.heap, !.err = t.err]
        ELSE IF ~b.delay THEN registerRoute(c, t.route, c.submitted)
        ELSE [c EXCEPT !.pendingRoutes =
                          Append(@, [route |-> t.route, sid |-> c.submitted])]

\* A when that submits the route without assigning the path.
when_KeepsPath(b, path, route) == addRoute(b, route)

\* when: route.path = path; addRoute(route).
when(b, path, route) ==
    LET c == addRoute([b EXCEPT !.heap[route]["path"] = path], route)
    IN  IF Len(c.pendingRoutes) > Len(b.pendingRoutes)
        THEN [c EXCEPT !.asked = Append(@, path)]
        ELSE c

\* An addRoutes that takes the key for the path of every route.
PathFor_Key(h, key, route) == key

\* The path addRoutes chooses for a route found under key.
PathFor(h, key, route) ==
    IF Get(h, route, "path") # Undef THEN Get(h, route, "path") ELSE key

\* The loop of addRoutes over the pairs from the i-th on; an exception
\* leaves the loop.
RECURSIVE AddFrom(_, _, _)
AddFrom(b, routes, i) ==
    IF i > Len(routes) \/ b.err # "" THEN b
    ELSE LET key == routes[i].key
             route == routes[i].route
         IN  AddFrom(when(b, PathFor(b.heap, key, route), route), routes, i + 1)

addRoutes(b, routes) == AddFrom(b, routes, 1)

\* addTransformer: a function is taken as it is, any other value is looked
\* up in predefinedTransformers.
addTransformer(b, transformer, parameters) ==
    LET callable == IF transformer.type = "function" THEN transformer.value
                    ELSE PredefinedTransformer(transformer.value)
    IN  IF callable = "undefined" THEN [b EXCEPT !.err = "InvalidTransformer"]
        ELSE [b EXCEPT !.transformers =
                         Append(@, [callable |-> callable,
                                    parameters |-> parameters])]

\* value ? true : false
Truthy(value) == value \notin {"false", "undefined", "null", "0", ""}

(***************************************************************************)
(* Operations                                                              *)
(***************************************************************************)
\* The submissions that are queued.
QueuedSids == {pendingRoutes[i].sid : i \in 1..Len(pendingRoutes)}

\* A deferred run starts when delayRouteRegistration switches deferral on
\* while nothing is queued, and goes on for as long as the only calls are
\* submissions that return; registerRoutes then ends it (phase "flushed").
\* first is the number of submissions made before the run.
NoRun == [phase |-> "none", first |-> 0]

RunAfter(b, op) ==
    CASE op = "delayRouteRegistration" ->
            IF b.delay /\ pendingRoutes = <<>>
            THEN [phase |-> "on", first |-> submitted] ELSE NoRun
      [] op \in {"when", "addRoutes"} ->
            IF b.err = "" /\ run.phase = "on" THEN run ELSE NoRun
      [] op = "registerRoutes" ->
            IF run.phase = "on" THEN [run EXCEPT !.phase = "flushed"] ELSE NoRun
      [] OTHER -> NoRun

\* The state after an operation that ends in b; news are the object
\* literals the application wrote in the call.
Ends(b, op, args, news) ==
    /\ run' = RunAfter(b, op)
    /\ discarded' = IF op = "clearPendingRoutes"
                    THEN discarded \cup QueuedSids ELSE discarded
    /\ heap' = b.heap
    /\ transformers' = b.transformers
    /\ pendingRoutes' = b.pendingRoutes
    /\ delayRouteRegistration' = b.delay
    /\ calls' = b.calls
    /\ submitted' = b.submitted
    /\ asked' = b.asked
    /\ last' = [op |-> op, err |-> b.err, args |-> args, news |-> news,
                made |-> Len(b.calls) - Len(calls)]

\* A delayRouteRegistration that flushes the queue when it switches
\* deferral off.
DelayRouteRegistration_Flushes(value) ==
    Ends(IF Truthy(value) THEN [Builder EXCEPT !.delay = TRUE]
         ELSE registerRoutes([Builder EXCEPT !.delay = FALSE]),
         "delayRouteRegistration", <<value>>, <<>>)

DelayRouteRegistration(value) ==
    Ends([Builder EXCEPT !.delay = Truthy(value)], "delayRouteRegistration",
         <<value>>, <<>>)

AddTransformer(transformer, parameters) ==
    Ends(addTransformer(Builder, transformer, parameters), "addTransformer",
         <<transformer, parameters>>, <<>>)

ClearTransformers ==
    Ends([Builder EXCEPT !.transformers = <<>>], "clearTransformers", <<>>, <<>>)

ClearPendingRoutes ==
    Ends(clearPendingRoutes(Builder), "clearPendingRoutes", <<>>, <<>>)

RegisterRoutes ==
    Ends(registerRoutes(Builder), "registerRoutes", <<>>, <<>>)

UpdateRoute(routeName, updatedRoute) ==
    Ends(updateRoute(Builder, routeName, updatedRoute), "updateRoute",
         <<routeName, updatedRoute>>, <<>>)

\* The builder as the call finds it: the application's new objects are on
\* the heap.
Given(news) == [Builder EXCEPT !.heap = @ \o news]

\* addRoutes(routes), the routes being objects the application already
\* holds or the literals news, in the order of their first use.
AddRoutes(news, routes) ==
    Ends(addRoutes(Given(news), routes), "addRoutes", <<routes>>, news)

\* when(path, route), the route being an object the application already
\* holds or the literal news[1].
When(news, path, route) ==
    Ends(when(Given(news), path, route), "when", <<path, route>>, news)

Init ==
    /\ heap = <<>>
    /\ transformers = <<>>
    /\ pendingRoutes = <<>>
    /\ delayRouteRegistration = FALSE
    /\ calls = <<>>
    /\ submitted = 0
    /\ last = [op |-> "init", err |-> "", args |-> <<>>, news |-> <<>>,
               made |-> 0]
    /\ run = NoRun
    /\ asked = <<>>
    /\ discarded = {}

(***************************************************************************)
(* Inputs                                                                  *)
(***************************************************************************)
PathA == <<"/", "a">>
PathB == <<"/", "{", " ", "b", "}">>
PathC == <<"/", "c">>
Paths == {PathA, PathB}

NameUP == <<"u", ".", "p">>
NameH == <<"h">>
Names == {NameUP, NameH}

kebabCase == <<"k", "e", "b", "a", "b", "C", "a", "s", "e">>

\* An object literal with the given path and name (Undef: without it).
Literal(path, name) == [NoKeys EXCEPT !["path"] = path, !["name"] = name]

\* The patches handed to updateRoute.
TitlePatch == [NoKeys EXCEPT !["title"] = <<"T">>]
PathPatch == [NoKeys EXCEPT !["path"] = PathA]
NamePatch == [NoKeys EXCEPT !["name"] = NameH]

\* The values handed to addTransformer, each with its parameters.
Function(f) == [type |-> "function", value |-> f]
String(s) == [type |-> "string", value |-> s]
Number(n) == [type |-> "number", value |-> n]

\* The values handed to delayRouteRegistration.
DelayValues == {"true", "false", "undefined", "1"}

\* The routes a call can be handed: the objects of the heap, and one more
\* when the call comes with a literal.
Refs(news) == 1..(Len(heap) + Len(news))

\* The calls of when: with an object of the heap, or with a literal.
WhenInputs(in) ==
    {<<news, path, route>> \in
        ({<<>>} \cup {<<def>> : def \in in.defs}) \X in.paths \X Refs(<<NoKeys>>) :
        route \in Refs(news) /\ (news # <<>> => route = Len(heap) + 1)}

\* The mappings handed to addRoutes: one pair, or two pairs in key order
\* (in.pairs); a route is an object of the heap or a literal (in.literals
\* of them at most in a mapping), and the same object may stand under both
\* keys.  Every literal is used, in the order of news.
Mappings(in) ==
    LET Lits == {<<>>} \cup {<<def>> : def \in in.defs}
                \cup (IF in.literals < 2 THEN {}
                      ELSE {<<d[1], d[2]>> : d \in in.defs \X in.defs})
        One == {<<w[1], <<[key |-> w[2], route |-> w[3]]>> >> :
                   w \in WhenInputs(in)}
        Two(news) ==
            {<<news, <<[key |-> PathA, route |-> r[1]],
                       [key |-> PathB, route |-> r[2]]>> >> :
                r \in {q \in Refs(news) \X Refs(news) :
                          /\ Len(news) = 1 => Len(heap) + 1 \in {q[1], q[2]}
                          /\ Len(news) = 2 => q = <<Len(heap) + 1, Len(heap) + 2>>}}
    IN  One \cup (IF in.pairs < 2 THEN {} ELSE UNION {Two(news) : news \in Lits})

\* The model stops at its bounds: no submission once maxSubmitted have
\* returned, no transformer added to a chain of maxTransformers, and no
\* call that would leave more than maxObjects objects.
Bounded(in) ==
    /\ Len(heap') <= in.maxObjects
    /\ submitted' <= in.maxSubmitted

\* One call of the application, its inputs drawn from the sets of in.
Step(in) ==
    \/ \E value \in in.values : DelayRouteRegistration(value)
    \/ /\ Len(transformers) < in.maxTransformers
       /\ \E t \in in.inputs : AddTransformer(t[1], t[2])
    \/ ClearTransformers
    \/ ClearPendingRoutes
    \/ RegisterRoutes
    \/ \E n \in in.names, u \in in.patches : UpdateRoute(n, u)
    \/ /\ submitted < in.maxSubmitted
       /\ \E m \in Mappings(in) : AddRoutes(m[1], m[2]) /\ Bounded(in)
    \/ /\ submitted < in.maxSubmitted
       /\ \E w \in WhenInputs(in) : When(w[1], w[2], w[3]) /\ Bounded(in)

(***************************************************************************)
(* Spec: the queue and the two modes.  Routes without a name, two paths,   *)
(* a transformer that returns a new object.                                *)
(***************************************************************************)
MaxObjects == 2
MaxSubmitted == 2
MaxTransformers == 1

Inputs ==
    [defs |-> {NoKeys},
     inputs |-> {<<Function("clone"), NoParameters>>,
                 <<String("NoSuchTransformer"), NoParameters>>},
     values |-> DelayValues,
     names |-> {NameH},
     patches |-> {TitlePatch},
     paths |-> Paths,
     pairs |-> 2,
     literals |-> 1,
     maxObjects |-> MaxObjects,
     maxSubmitted |-> MaxSubmitted,
     maxTransformers |-> MaxTransformers]

Next == Step(Inputs)

Spec == Init /\ [][Next]_vars

(***************************************************************************)
(* SpecUpdate: updateRoute.  Routes with and without a name, one path,     *)
(* patches of the title, the path and the name.                            *)
(***************************************************************************)
MaxObjectsUpdate == 2
MaxSubmittedUpdate == 2
MaxTransformersUpdate == 1

InputsUpdate ==
    [defs |-> {Literal(Undef, n) : n \in Names \cup {Undef}},
     inputs |-> {<<String("NoSuchTransformer"), NoParameters>>},
     values |-> DelayValues,
     names |-> Names,
     patches |-> {TitlePatch, NamePatch},
     paths |-> {PathB},
     pairs |-> 1,
     literals |-> 1,
     maxObjects |-> MaxObjectsUpdate,
     maxSubmitted |-> MaxSubmittedUpdate,
     maxTransformers |-> MaxTransformersUpdate]

NextUpdate == Step(InputsUpdate)

SpecUpdate == Init /\ [][NextUpdate]_vars

(***************************************************************************)
(* SpecChain: the transformer chain.  A route with a name and one without, *)
(* one path, every kind of value handed to addTransformer.                 *)
(***************************************************************************)
MaxObjectsChain == 1
MaxSubmittedChain == 1
MaxTransformersChain == 2

InputsChain ==
    [defs |-> {Literal(Undef, NameUP), NoKeys},
     inputs |-> {<<Function("setName"), Parameters(<<NameH>>)>>,
                 <<Function("setName"), Parameters(<<NameUP>>)>>,
                 <<String("ControllersFromNames"), NoParameters>>,
                 <<String("NoSuchTransformer"), NoParameters>>},
     values |-> {"true", "false"},
     names |-> {NameUP},
     patches |-> {TitlePatch},
     paths |-> {PathB},
     pairs |-> 1,
     literals |-> 1,
     maxObjects |-> MaxObjectsChain,
     maxSubmitted |-> MaxSubmittedChain,
     maxTransformers |-> MaxTransformersChain]

NextChain == Step(InputsChain)

SpecChain == Init /\ [][NextChain]_vars

(***************************************************************************)
(* SpecNaming: a naming strategy the code does not know, and the values    *)
(* addTransformer is handed that are neither functions nor the names of    *)
(* the pre-defined transformers.                                           *)
(***************************************************************************)
MaxObjectsNaming == 1
MaxSubmittedNaming == 1
MaxTransformersNaming == 2

InputsNaming ==
    [defs |-> {Literal(Undef, NameUP), NoKeys},
     inputs |-> {<<Function("setName"), Parameters(<<NameH>>)>>,
                 <<String("ControllersFromNames"), Parameters(<<Undef, kebabCase>>)>>,
                 <<String("toString"), NoParameters>>,
                 <<String("NoSuchTransformer"), NoParameters>>,
                 <<Number("42"), NoParameters>>},
     values |-> {"true", "false"},
     names |-> {NameUP},
     patches |-> {TitlePatch},
     paths |-> {PathB},
     pairs |-> 1,
     literals |-> 1,
     maxObjects |-> MaxObjectsNaming,
     maxSubmitted |-> MaxSubmittedNaming,
     maxTransformers |-> MaxTransformersNaming]

NextNaming == Step(InputsNaming)

SpecNaming == Init /\ [][NextNaming]_vars

(***************************************************************************)
(* SpecMapping: the mappings of addRoutes.  Routes with a path of their    *)
(* own and without one, two of them in one mapping.                        *)
(***************************************************************************)
MaxObjectsMapping == 3
MaxSubmittedMapping == 2
MaxTransformersMapping == 1

InputsMapping ==
    [defs |-> {NoKeys, Literal(PathC, Undef)},
     inputs |-> {<<Function("clone"), NoParameters>>,
                 <<String("NoSuchTransformer"), NoParameters>>},
     values |-> {"true", "false"},
     names |-> {NameH},
     patches |-> {TitlePatch},
     paths |-> {PathA},
     pairs |-> 2,
     literals |-> 2,
     maxObjects |-> MaxObjectsMapping,
     maxSubmitted |-> MaxSubmittedMapping,
     maxTransformers |-> MaxTransformersMapping]

NextMapping == Step(InputsMapping)

SpecMapping == Init /\ [][NextMapping]_vars

(***************************************************************************)
(* SpecCasing: ControllersFromNames with the strategies it knows, on names *)
(* of one to three parts, one of them empty.                               *)
(***************************************************************************)
MaxObjectsCasing == 1
MaxSubmittedCasing == 1
MaxTransformersCasing == 1

UserProfile == <<"u", "s", "e", "r", ".", "p", "r", "o", "f", "i", "l", "e">>
NameDashed == <<"a", "b", "-", "-", "c", ".", "D">>
Dash == <<"-">>
Controller == <<"C", "o", "n", "t", "r", "o", "l", "l", "e", "r">>

InputsCasing ==
    [defs |-> {Literal(Undef, UserProfile), Literal(Undef, NameDashed)},
     inputs |-> {<<String("ControllersFromNames"), NoParameters>>,
                 <<String("ControllersFromNames"), Parameters(<<Undef, camelCase>>)>>,
                 <<String("ControllersFromNames"),
                   Parameters(<<Dash, camelCase, Controller>>)>>,
                 <<String("NoSuchTransformer"), NoParameters>>},
     values |-> {"true", "false"},
     names |-> {NameH},
     patches |-> {TitlePatch},
     paths |-> {PathA},
     pairs |-> 1,
     literals |-> 1,
     maxObjects |-> MaxObjectsCasing,
     maxSubmitted |-> MaxSubmittedCasing,
     maxTransformers |-> MaxTransformersCasing]

NextCasing == Step(InputsCasing)

SpecCasing == Init /\ [][NextCasing]_vars

(***************************************************************************)
(* SpecNoName: ControllersFromNames on routes that have no name, with the  *)
(* parameters left out, given, and naming a strategy the code does not     *)
(* know.                                                                   *)
(***************************************************************************)
MaxObjectsNoName == 2
MaxSubmittedNoName == 2
MaxTransformersNoName == 2

InputsNoName ==
    [defs |-> {NoKeys, Literal(PathC, Undef)},
     inputs |-> {<<String("ControllersFromNames"), NoParameters>>,
                 <<String("ControllersFromNames"),
                   Parameters(<<Dash, camelCase, Controller>>)>>,
                 <<String("ControllersFromNames"),
                   Parameters(<<<<>>, kebabCase, <<>> >>)>>,
                 <<String("NoSuchTransformer"), NoParameters>>},
     values |-> {"true", "false"},
     names |-> {NameH},
     patches |-> {TitlePatch},
     paths |-> {PathA},
     pairs |-> 1,
     literals |-> 1,
     maxObjects |-> MaxObjectsNoName,
     maxSubmitted |-> MaxSubmittedNoName,
     maxTransformers |-> MaxTransformersNoName]

NextNoName == Step(InputsNoName)

SpecNoName == Init /\ [][NextNoName]_vars

(***************************************************************************)
(* SpecPlaceholders: SymfonyPlaceholders on paths with two placeholders,   *)
(* with one, with none, and with a brace that opens none.                  *)
(***************************************************************************)
MaxObjectsPlaceholders == 1
MaxSubmittedPlaceholders == 1
MaxTransformersPlaceholders == 1

PathPosts == <<"/", "u", "s", "e", "r", "/", "{", " ", "i", "d", " ", "}", "/",
               "p", "o", "s", "t", "s", "/", "{", "p", "o", "s", "t", "I", "d", "}">>
PathOpen == <<"/", "{", "a", " ", " ", "}", "x", "}", "/", "{">>

InputsPlaceholders ==
    [defs |-> {Literal(Undef, NameH)},
     inputs |-> {<<String("SymfonyPlaceholders"), NoParameters>>,
                 <<String("NoSuchTransformer"), NoParameters>>},
     values |-> {"true", "false"},
     names |-> {NameH},
     patches |-> {TitlePatch},
     paths |-> {PathPosts, PathOpen, PathA},
     pairs |-> 1,
     literals |-> 1,
     maxObjects |-> MaxObjectsPlaceholders,
     maxSubmitted |-> MaxSubmittedPlaceholders,
     maxTransformers |-> MaxTransformersPlaceholders]

NextPlaceholders == Step(InputsPlaceholders)

SpecPlaceholders == Init /\ [][NextPlaceholders]_vars

(***************************************************************************)
(* SpecConservation: three submissions, so that one can be forwarded, one  *)
(* dropped and one queued.                                                 *)
(***************************************************************************)
MaxObjectsConservation == 2
MaxSubmittedConservation == 3
MaxTransformersConservation == 1

InputsConservation ==
    [defs |-> {NoKeys},
     inputs |-> {<<String("NoSuchTransformer"), NoParameters>>},
     values |-> {"true", "false"},
     names |-> {NameH},
     patches |-> {TitlePatch},
     paths |-> {PathA},
     pairs |-> 2,
     literals |-> 1,
     maxObjects |-> MaxObjectsConservation,
     maxSubmitted |-> MaxSubmittedConservation,
     maxTransformers |-> MaxTransformersConservation]

NextConservation == Step(InputsConservation)

SpecConservation == Init /\ [][NextConservation]_vars

(***************************************************************************)
(* Properties                                                              *)
(***************************************************************************)
\* What the registrar is handed for the queue q when the heap is h.
Forwarded(h, q) ==
    [i \in 1..Len(q) |-> [path |-> Get(h, q[i].route, "path"),
                          route |-> q[i].route,
                          sid |-> q[i].sid]]

\* C1: in deferred mode, switched on while nothing was queued, the
\* submissions that follow invoke the registrar zero times; the
\* registerRoutes that ends the run then invokes it exactly once per
\* submission of the run, in the order of submission.
C1_DeferredRun ==
    [][run.phase = "on" =>
          /\ run'.phase = "on" => calls' = calls
          /\ last'.op = "registerRoutes" =>
                /\ Len(calls') = Len(calls) + (submitted - run.first)
                /\ \A k \in 1..(submitted - run.first) :
                      /\ calls'[Len(calls) + k].sid = run.first + k
                      /\ calls'[Len(calls) + k].route = pendingRoutes[k].route
      ]_vars

C1_Witness ==
    /\ run.phase = "flushed"
    /\ submitted - run.first = 2
    /\ last.op = "registerRoutes"
    /\ last.made = 2
    /\ calls[Len(calls) - 1].route # calls[Len(calls)].route

\* C2: registerRoutes hands every queued route to the registrar exactly
\* once, in queue order, and leaves the queue empty; on an empty queue it
\* makes no invocation.
C2_Flush ==
    [][last'.op = "registerRoutes" =>
          /\ calls' = calls \o Forwarded(heap, pendingRoutes)
          /\ pendingRoutes' = <<>>
          /\ pendingRoutes = <<>> => calls' = calls
      ]_vars

C2_Witness ==
    /\ last.op = "registerRoutes"
    /\ last.made = 2
    /\ pendingRoutes = <<>>
    /\ calls[Len(calls) - 1].sid < calls[Len(calls)].sid

\* C3: clearPendingRoutes empties the queue without invoking the registrar
\* and without touching anything else; a registerRoutes right after it
\* makes no invocation; and no submission it dropped ever reaches the
\* registrar.
C3_Clear ==
    [][/\ last'.op = "clearPendingRoutes" =>
             /\ pendingRoutes' = <<>>
             /\ UNCHANGED <<calls, heap, transformers, delayRouteRegistration>>
       /\ last.op = "clearPendingRoutes" /\ last'.op = "registerRoutes" =>
             calls' = calls
       /\ \A i \in 1..Len(calls') : calls'[i].sid \notin discarded'
      ]_vars

C3_Witness ==
    /\ last.op = "registerRoutes"
    /\ last.made = 0
    /\ Cardinality(discarded) = 2
    /\ calls = <<>>

\* C4: updateRoute(routeName, updatedRoute) merges updatedRoute into every
\* queued route whose name is routeName, duplicates included, and into no
\* other object; the queue, the registrar's invocations, the transformers
\* and the mode stay as they were, and nothing at all changes when no
\* queued route has that name.
C4_Update ==
    [][last'.op = "updateRoute" =>
          LET routeName == last'.args[1]
              updatedRoute == last'.args[2]
              Hit(r) == /\ \E i \in 1..Len(pendingRoutes) :
                              pendingRoutes[i].route = r
                        /\ heap[r]["name"] # Undef
                        /\ heap[r]["name"] = routeName
          IN  /\ heap' = [r \in 1..Len(heap) |->
                            IF Hit(r) THEN Extend(heap[r], updatedRoute)
                            ELSE heap[r]]
              /\ (~\E r \in 1..Len(heap) : Hit(r)) => heap' = heap
              /\ last'.err = ""
              /\ UNCHANGED <<pendingRoutes, calls, transformers,
                             delayRouteRegistration, submitted, discarded>>
      ]_vars

C4_Witness ==
    /\ last.op = "updateRoute"
    /\ last.args[2] = TitlePatch
    /\ Len(pendingRoutes) = 2
    /\ pendingRoutes[1].route # pendingRoutes[2].route
    /\ \A i \in 1..2 :
          /\ heap[pendingRoutes[i].route]["name"] = last.args[1]
          /\ heap[pendingRoutes[i].route]["title"] = <<"T">>

\* C5: a when that returns while deferral is off invokes the registrar
\* exactly once, with the route the transformers returned, and leaves the
\* queue as it was; while deferral is on it appends that route to the end
\* of the queue and makes no invocation.
C5_Submit ==
    [][last'.op = "when" /\ last'.err = "" =>
          LET path == last'.args[1]
              route == last'.args[2]
              t == runTransformersOnRoute(
                      transformers,
                      [heap \o last'.news EXCEPT ![route]["path"] = path], route)
          IN  /\ heap' = t.heap
              /\ IF ~delayRouteRegistration
                 THEN /\ pendingRoutes' = pendingRoutes
                      /\ calls' = Append(calls, [path |-> Get(t.heap, t.route, "path"),
                                                 route |-> t.route,
                                                 sid |-> submitted'])
                 ELSE /\ calls' = calls
                      /\ pendingRoutes' = Append(pendingRoutes,
                                                 [route |-> t.route, sid |-> submitted'])
      ]_vars

C5_Witness ==
    /\ last.op = "when"
    /\ last.err = ""
    /\ ~delayRouteRegistration
    /\ last.made = 1
    /\ transformers # <<>>
    /\ calls[Len(calls)].route # last.args[2]

\* The route a when or a one-pair addRoutes hands to addRoute, and the heap
\* it hands it on: the call's arguments args, the literals news.
Handed(op, args, news) ==
    LET h == heap \o news
        route == IF op = "when" THEN args[2] ELSE args[1][1].route
        path == IF op = "when" THEN args[1]
                ELSE PathFor(h, args[1][1].key, route)
    IN  [heap |-> [h EXCEPT ![route]["path"] = path], route |-> route]

\* The route the call that ran last submitted: the last one forwarded or
\* the last one queued.
Outcome ==
    IF last.made > 0 THEN calls[Len(calls)].route
    ELSE pendingRoutes[Len(pendingRoutes)].route

\* The parameters a transformer entry adds after the route.
Bound(t) == IF t.parameters.given THEN t.parameters.list ELSE <<>>

\* T[n] is Tn(... T2(T1(route)) ...) for the transformers ts = T1, T2, ...,
\* T[0] the route itself; an exception ends the composition.
Composed(ts, h, route) ==
    LET After(t, prev) ==
           IF prev.err # "" THEN prev
           ELSE Apply(t.callable, prev.heap, prev.route, Bound(t))
        T[n \in 0..Len(ts)] ==
           IF n = 0 THEN Returned(h, route)
           ELSE CHOOSE r \in {After(ts[n], prev) : prev \in {T[n - 1]}} : TRUE
    IN  T

\* C6: with the transformers T1 .. Tn registered in that order, a
\* submission that returns forwards or queues Tn(... T2(T1(route)) ...):
\* T1 receives the submitted route, every later transformer receives what
\* the one before it returned, each followed by its own parameters, and the
\* route objects are left as that composition leaves them.
C6_Composition ==
    [][/\ last'.op \in {"when", "addRoutes"}
       /\ last'.op = "addRoutes" => Len(last'.args[1]) = 1
       /\ last'.err = ""
       =>
       LET ts == transformers
           given == Handed(last'.op, last'.args, last'.news)
           T == Composed(ts, given.heap, given.route)
       IN  /\ heap' = T[Len(ts)].heap
           /\ Outcome' = T[Len(ts)].route
      ]_vars

\* Two transformers that do not commute have run in the order of their
\* registration: the controller is made from the name the first one set.
C6_Witness ==
    /\ last.op = "when"
    /\ last.err = ""
    /\ Len(transformers) = 2
    /\ transformers[1] = [callable |-> "setName", parameters |-> Parameters(<<NameH>>)]
    /\ transformers[2].callable = "ControllersFromNames"
    /\ last.news = <<Literal(Undef, NameUP)>>
    /\ Get(heap, Outcome, "controller") = <<"H", "C", "t", "r", "l">>

\* The entries an addRoutes that returned has made, one for every pair: the
\* path of the i-th route it forwarded, or of the i-th route it queued.
MadePath(i) ==
    IF ~delayRouteRegistration THEN calls'[Len(calls) + i].path
    ELSE Get(heap', pendingRoutes'[Len(pendingRoutes) + i].route, "path")

C8_PathAtRegistrar ==
    \A i \in 1..Len(calls) :
       /\ calls[i].route # StrPrim
       /\ calls[i].path # Undef

\* A ControllersFromNames entry whose naming strategy is neither PascalCase
\* nor camelCase.
UnknownStrategy(t) ==
    /\ t.callable = "ControllersFromNames"
    /\ OrDefault(Arg(Bound(t), 2), PascalCase) \notin {PascalCase, camelCase}

HasUnknownStrategy == \E n \in 1..Len(transformers) : UnknownStrategy(transformers[n])

\* An operation that left the registrar's calls, the queue, the chain and
\* the mode as they were.
Untouched ==
    /\ calls' = calls
    /\ pendingRoutes' = pendingRoutes
    /\ transformers' = transformers
    /\ delayRouteRegistration' = delayRouteRegistration

\* C9: with a ControllersFromNames of an unknown naming strategy in the
\* chain, every when raises UnknownNamingStrategyError, forwards and queues
\* nothing, and leaves the queue, the chain and the mode unchanged.
C9_AlwaysRaises ==
    [][last'.op = "when" /\ HasUnknownStrategy =>
          /\ last'.err = "UnknownNamingStrategy"
          /\ Untouched
      ]_vars

\* C9, amended: with such an entry in the chain, a when whose route reaches
\* the first such entry with a name (one that splits into at least one
\* part) raises UnknownNamingStrategyError; nothing is forwarded or queued,
\* the queue, the chain and the mode are unchanged, and the route objects
\* keep what when and the transformers before that entry wrote.  A route
\* that reaches the entry without a name passes it as it is.
C9_RaisesForNamed ==
    [][last'.op = "when" /\ HasUnknownStrategy =>
          LET ts == transformers
              k == CHOOSE n \in 1..Len(ts) :
                      /\ UnknownStrategy(ts[n])
                      /\ \A m \in 1..(n - 1) : ~UnknownStrategy(ts[m])
              given == Handed("when", last'.args, last'.news)
              p == Composed(SubSeq(ts, 1, k - 1), given.heap, given.route)[k - 1]
              name == Get(p.heap, p.route, "name")
              nameDelimiter == OrDefault(Arg(Bound(ts[k]), 1), Dot)
          IN  p.err = "" =>
                 IF name # Undef /\ Len(Split(name, nameDelimiter)) > 0
                 THEN /\ last'.err = "UnknownNamingStrategy"
                      /\ Untouched
                      /\ submitted' = submitted
                      /\ heap' = p.heap
                 ELSE k = Len(ts) =>
                         /\ last'.err = ""
                         /\ heap' = p.heap
                         /\ Outcome' = p.route
      ]_vars

\* A route without a name was submitted, the first transformer gave it
\* one, the second raised: the route keeps the path and the name.
C9_Witness ==
    /\ last.op = "when"
    /\ last.err = "UnknownNamingStrategy"
    /\ last.news = <<NoKeys>>
    /\ Len(transformers) = 2
    /\ transformers[1].callable = "setName"
    /\ UnknownStrategy(transformers[2])
    /\ Get(heap, last.args[2], "name") = NameH
    /\ Get(heap, last.args[2], "path") = last.args[1]
    /\ calls = <<>>
    /\ pendingRoutes = <<>>

\* C10: addTransformer raises InvalidTransformerError and leaves the chain,
\* the queue and the mode unchanged when its first argument is neither a
\* function nor the name of a pre-defined transformer; otherwise it appends
\* exactly one entry, the callable with the parameters, to the end of the
\* chain.
C10_AddTransformer ==
    [][last'.op = "addTransformer" =>
          LET transformer == last'.args[1]
              parameters == last'.args[2]
          IN  IF \/ transformer.type = "function"
                 \/ transformer.type = "string" /\ transformer.value \in BuiltInNames
              THEN /\ last'.err = ""
                   /\ transformers' = Append(transformers,
                                             [callable |-> transformer.value,
                                              parameters |-> parameters])
              ELSE /\ last'.err = "InvalidTransformer"
                   /\ Untouched
      ]_vars


\* C11: clearTransformers empties the chain and touches neither the queue,
\* the queued route objects nor the registrar; registerRoutes runs no
\* transformer: it leaves every route object as it is and hands over the
\* very objects that were queued; and a when made while the chain is empty
\* forwards or queues the object it was given, changed in its path only.
C11_ClearTransformers ==
    [][/\ last'.op = "clearTransformers" =>
             /\ transformers' = <<>>
             /\ UNCHANGED <<heap, pendingRoutes, calls, delayRouteRegistration>>
       /\ last'.op = "registerRoutes" =>
             /\ heap' = heap
             /\ transformers' = transformers
             /\ Len(calls') = Len(calls) + Len(pendingRoutes)
             /\ \A i \in 1..Len(pendingRoutes) :
                   /\ calls'[Len(calls) + i].route = pendingRoutes[i].route
                   /\ calls'[Len(calls) + i].path =
                         Get(heap, pendingRoutes[i].route, "path")
       /\ last'.op = "when" /\ transformers = <<>> =>
             /\ last'.err = ""
             /\ Outcome' = last'.args[2]
             /\ heap' = [heap \o last'.news EXCEPT
                            ![last'.args[2]]["path"] = last'.args[1]]
      ]_vars

\* A flush after clearTransformers has forwarded two routes: the first was
\* queued while the chain held the copying transformer (the registrar got
\* the copy, object 2, of object 1), the second is object 1 itself, queued
\* after the chain was emptied.
C11_Witness ==
    /\ last.op = "registerRoutes"
    /\ last.made = 2
    /\ transformers = <<>>
    /\ Len(heap) = 2
    /\ calls[1].sid = 1
    /\ calls[1].route = 2
    /\ calls[2].sid = 2
    /\ calls[2].route = 1


\* C12: with an empty chain, a when forwards (deferral off) or queues
\* (deferral on) the route it was given, every key but path as it was
\* given and path equal to the path argument; no other object is changed.
C12_ZeroTransformers ==
    [][last'.op = "when" /\ transformers = <<>> =>
          LET path == last'.args[1]
              route == last'.args[2]
              given == heap \o last'.news
          IN  /\ last'.err = ""
              /\ Outcome' = route
              /\ IF delayRouteRegistration THEN last'.made = 0
                 ELSE last'.made = 1 /\ calls'[Len(calls')].path = path
              /\ Len(heap') = Len(given)
              /\ heap'[route]["path"] = path
              /\ \A k \in Keys \ {"path"} : heap'[route][k] = given[route][k]
              /\ \A o \in 1..Len(given) : o # route => heap'[o] = given[o]
      ]_vars

\* A literal with a name and no path went to the registrar through an
\* empty chain: it has its name and the path of the call.
C12_Witness ==
    /\ last.op = "when"
    /\ last.err = ""
    /\ transformers = <<>>
    /\ last.news = <<Literal(Undef, NameUP)>>
    /\ last.made = 1
    /\ calls[Len(calls)].route = last.args[2]
    /\ calls[Len(calls)].path = PathB
    /\ Content(heap, last.args[2]) = Literal(PathB, NameUP)


\* The name with its delimiters (the character d) left out and the first
\* letter of every segment in upper case, the first segment's too under
\* PascalCase only.
Cased(name, d, namingStrategy) ==
    LET Starts(i) == i = 1 \/ name[i - 1] = d
        InFirst(i) == \A j \in 1..(i - 1) : name[j] # d
        Raised(i) == Starts(i) /\ (namingStrategy = PascalCase \/ ~InFirst(i))
        out[i \in 0..Len(name)] ==
           IF i = 0 THEN <<>>
           ELSE out[i - 1] \o (IF name[i] = d THEN <<>>
                               ELSE IF Raised(i) THEN <<toUpperCase(name[i])>>
                               ELSE <<name[i]>>)
    IN  out[Len(name)]

\* In the formulas below a value that is used more than once is bound by a
\* quantifier over the set that holds it alone.

\* C13: ControllersFromNames, with PascalCase or camelCase, on a route that
\* has a name sets controller to the segments of the name between the
\* delimiters, cased and joined, followed by the suffix, and changes no
\* other key; the delimiter defaults to '.', the strategy to PascalCase,
\* the suffix to 'Ctrl': 'user.profile' gives 'UserProfileCtrl', and
\* 'userProfileCtrl' with camelCase.
C13_ControllersFromNames ==
    [][/\ last'.op = "when"
       /\ transformers # <<>>
       /\ transformers[Len(transformers)].callable = "ControllersFromNames"
       =>
       LET n == Len(transformers)
           list == Bound(transformers[n])
           nameDelimiter == OrDefault(Arg(list, 1), Dot)
           namingStrategy == OrDefault(Arg(list, 2), PascalCase)
           suffix == OrDefault(Arg(list, 3), Ctrl)
           given == Handed("when", last'.args, last'.news)
           before == Composed(SubSeq(transformers, 1, n - 1),
                              given.heap, given.route)[n - 1]
       IN  \A p \in {before} : \A name \in {Get(p.heap, p.route, "name")} :
           /\ p.err = ""
           /\ name # Undef
           /\ namingStrategy \in {PascalCase, camelCase}
           /\ Len(nameDelimiter) = 1
           =>
           /\ last'.err = ""
           /\ Outcome' = p.route
           /\ heap' = [p.heap EXCEPT ![p.route]["controller"] =
                          Cased(name, nameDelimiter[1], namingStrategy) \o suffix]
           /\ name = UserProfile /\ list = <<>> =>
                 heap'[p.route]["controller"] =
                    <<"U", "s", "e", "r", "P", "r", "o", "f", "i", "l", "e",
                      "C", "t", "r", "l">>
           /\ name = UserProfile /\ list = <<Undef, camelCase>> =>
                 heap'[p.route]["controller"] =
                    <<"u", "s", "e", "r", "P", "r", "o", "f", "i", "l", "e",
                      "C", "t", "r", "l">>
      ]_vars

\* 'user.profile' went through ControllersFromNames with camelCase and the
\* other parameters left to their defaults.
C13_Witness ==
    /\ last.op = "when"
    /\ last.err = ""
    /\ Len(transformers) = 1
    /\ transformers[1].callable = "ControllersFromNames"
    /\ Bound(transformers[1]) = <<Undef, camelCase>>
    /\ Get(heap, Outcome, "name") = UserProfile
    /\ Get(heap, Outcome, "controller") =
          <<"u", "s", "e", "r", "P", "r", "o", "f", "i", "l", "e",
            "C", "t", "r", "l">>


\* C14: ControllersFromNames, whatever its delimiter, strategy and suffix,
\* returns a route that has no name as it is: the when returns, the route
\* that went in comes out, and no object is changed, so no controller is
\* assigned.
C14_NoName ==
    [][/\ last'.op = "when"
       /\ transformers # <<>>
       /\ transformers[Len(transformers)].callable = "ControllersFromNames"
       =>
       LET n == Len(transformers)
           given == Handed("when", last'.args, last'.news)
           before == Composed(SubSeq(transformers, 1, n - 1),
                              given.heap, given.route)[n - 1]
       IN  \A p \in {before} :
           p.err = "" /\ Get(p.heap, p.route, "name") = Undef =>
              /\ last'.err = ""
              /\ Outcome' = p.route
              /\ heap' = p.heap
              /\ Get(heap', Outcome', "controller") = Get(given.heap, given.route, "controller")
      ]_vars

\* A route without a name went to the registrar through a
\* ControllersFromNames of an unknown strategy: it has its path and
\* nothing else.
C14_Witness ==
    /\ last.op = "when"
    /\ last.err = ""
    /\ last.made = 1
    /\ last.news = <<NoKeys>>
    /\ transformers # <<>>
    /\ UnknownStrategy(transformers[Len(transformers)])
    /\ calls[Len(calls)].route = last.args[2]
    /\ Content(heap, last.args[2]) = Literal(PathA, Undef)


\* The placeholder of s that starts at position i, if there is one: '{',
\* white space, a name of one character or more without white space and
\* braces, white space, '}'.  from and to are the ends of the name, next is
\* the position after the '}'.
Placeholder(s, i) ==
    LET Spaces(j) == {n \in 0..(Len(s) + 1 - j) :
                         \A k \in j..(j + n - 1) : s[k] = " "}
        Plain(j) == {n \in 0..(Len(s) + 1 - j) :
                        \A k \in j..(j + n - 1) : s[k] \notin {" ", "{", "}"}}
        Most(S) == CHOOSE n \in S : \A o \in S : o <= n
        from == i + 1 + Most(Spaces(i + 1))
        to == from + Most(Plain(from)) - 1
        close == to + 1 + Most(Spaces(to + 1))
    IN  [is |-> /\ i <= Len(s) /\ s[i] = "{"
                /\ to >= from
                /\ close <= Len(s) /\ s[close] = "}",
         from |-> from, to |-> to, next |-> close + 1]

\* Every '{' of s that has a '}' somewhere after it opens a placeholder.
Plain(s) ==
    \A i \in 1..Len(s) :
       s[i] = "{" /\ (\E k \in (i + 1)..Len(s) : s[k] = "}") => Placeholder(s, i).is

\* s with every placeholder replaced by ':' and its name.
Rewritten(s) ==
    LET out[i \in 1..(Len(s) + 1)] ==
           IF i > Len(s) THEN <<>>
           ELSE LET p == Placeholder(s, i) IN
                IF p.is THEN <<":">> \o SubSeq(s, p.from, p.to) \o out[p.next]
                ELSE <<s[i]>> \o out[i + 1]
    IN  out[1]

\* C15: SymfonyPlaceholders replaces every placeholder of the path, '{',
\* white space, name, white space, '}', by ':' and the name, leaves the
\* text outside the placeholders as it is, leaves a path without
\* placeholders unchanged, and changes no other key;
\* '/user/{ id }/posts/{postId}' becomes '/user/:id/posts/:postId'.
C15_SymfonyPlaceholders ==
    [][/\ last'.op = "when"
       /\ transformers # <<>>
       /\ transformers[Len(transformers)].callable = "SymfonyPlaceholders"
       =>
       LET n == Len(transformers)
           given == Handed("when", last'.args, last'.news)
           before == Composed(SubSeq(transformers, 1, n - 1),
                              given.heap, given.route)[n - 1]
       IN  \A p \in {before} : \A path \in {Get(p.heap, p.route, "path")} :
           p.err = "" /\ path # Undef /\ Plain(path) =>
              /\ last'.err = ""
              /\ Outcome' = p.route
              /\ heap' = [p.heap EXCEPT ![p.route]["path"] = Rewritten(path)]
              /\ (\A i \in 1..Len(path) : ~Placeholder(path, i).is) => heap' = p.heap
              /\ path = PathPosts =>
                    heap'[p.route]["path"] =
                       <<"/", "u", "s", "e", "r", "/", ":", "i", "d", "/",
                         "p", "o", "s", "t", "s", "/", ":", "p", "o", "s", "t", "I", "d">>
      ]_vars

\* '/user/{ id }/posts/{postId}' went to the registrar through
\* SymfonyPlaceholders.
C15_Witness ==
    /\ last.op = "when"
    /\ last.err = ""
    /\ last.made = 1
    /\ last.args[1] = PathPosts
    /\ Len(transformers) = 1
    /\ transformers[1].callable = "SymfonyPlaceholders"
    /\ calls[Len(calls)].path =
          <<"/", "u", "s", "e", "r", "/", ":", "i", "d", "/",
            "p", "o", "s", "t", "s", "/", ":", "p", "o", "s", "t", "I", "d">>
    /\ Get(heap, calls[Len(calls)].route, "name") = NameH


\* C16: in a deferred run with an empty chain (deferral switched on over
\* an empty queue, then nothing but submissions), the k-th invocation the
\* flush makes carries the path the k-th queued submission was made with.
C16_FlushPaths ==
    [][/\ run.phase = "on"
       /\ transformers = <<>>
       /\ last'.op = "registerRoutes"
       =>
       \A k \in 1..Len(pendingRoutes) : calls'[Len(calls) + k].path = asked[k]
      ]_vars


\* The submissions in the order the registrar got them.
Registered == [i \in 1..Len(calls) |-> calls[i].sid]

\* The submissions in the order of the queue.
Queued == [i \in 1..Len(pendingRoutes) |-> pendingRoutes[i].sid]

Increasing(s) == \A i, j \in 1..Len(s) : i < j => s[i] < s[j]

\* C17: as long as clearPendingRoutes has not been called, the routes have
\* reached the registrar in the order of their submission.
C17_SubmissionOrder == discarded = {} => Increasing(Registered)

\* A submission that goes to the registrar at once while routes are queued.
Overtakes ==
    /\ last'.op \in {"when", "addRoutes"}
    /\ last'.made > 0
    /\ pendingRoutes # <<>>

\* C17, amended: the routes reach the registrar in the order of their
\* submission, and the queued ones will, for as long as no route is
\* submitted with deferral off while routes are queued: every other step
\* keeps the registrar's order followed by the queue's order the order of
\* submission.  A flush alone always forwards in the order of submission.
C17_OrderUnlessOvertaken ==
    [][/\ Increasing(Registered \o Queued) /\ ~Overtakes =>
             Increasing(Registered' \o Queued')
       /\ Increasing(Queued')
       /\ last'.op = "registerRoutes" =>
             Increasing(SubSeq(Registered', Len(calls) + 1, Len(calls')))
      ]_vars

\* The second submission was queued, deferral was switched off while it
\* was queued, and the flush forwarded it after the first.
C17_Witness ==
    /\ last.op = "registerRoutes"
    /\ last.made = 1
    /\ ~delayRouteRegistration
    /\ Registered = <<1, 2>>


\* C18: delayRouteRegistration sets the flag, to whether its argument is
\* truthy, and nothing else: no invocation of the registrar, the queue,
\* the chain and the route objects as they were.  Routes leave the queue
\* through registerRoutes and clearPendingRoutes only: every other step
\* keeps the queue or adds to its end.
C18_DelayRouteRegistration ==
    [][/\ last'.op = "delayRouteRegistration" =>
             /\ delayRouteRegistration' = (last'.args[1] \in {"true", "1"})
             /\ last'.err = ""
             /\ UNCHANGED <<calls, pendingRoutes, transformers, heap, submitted>>
       /\ last'.op \notin {"registerRoutes", "clearPendingRoutes"} =>
             /\ Len(pendingRoutes') >= Len(pendingRoutes)
             /\ SubSeq(pendingRoutes', 1, Len(pendingRoutes)) = pendingRoutes
      ]_vars

\* Deferral was switched off while two routes were queued: they are queued
\* still and the registrar has not been called.
C18_Witness ==
    /\ last.op = "delayRouteRegistration"
    /\ last.args = <<"false">>
    /\ ~delayRouteRegistration
    /\ Len(pendingRoutes) = 2
    /\ calls = <<>>


\* C19: every submission that returned is in exactly one place: forwarded
\* to the registrar, once; queued, once; or dropped by
\* clearPendingRoutes.  So the number of submissions is the number of
\* invocations plus the length of the queue plus the number dropped.
C19_Conservation ==
    /\ submitted = Len(calls) + Len(pendingRoutes) + Cardinality(discarded)
    /\ \A i, j \in 1..Len(calls) : i # j => calls[i].sid # calls[j].sid
    /\ \A i, j \in 1..Len(pendingRoutes) :
          i # j => pendingRoutes[i].sid # pendingRoutes[j].sid
    /\ \A s \in 1..submitted :
          \/ /\ \E i \in 1..Len(calls) : calls[i].sid = s
             /\ s \notin QueuedSids \cup discarded
          \/ /\ s \in QueuedSids
             /\ s \notin discarded
             /\ \A i \in 1..Len(calls) : calls[i].sid # s
          \/ /\ s \in discarded
             /\ s \notin QueuedSids
             /\ \A i \in 1..Len(calls) : calls[i].sid # s

\* Of three submissions one was dropped, one forwarded and one is queued.
C19_Witness ==
    /\ submitted = 3
    /\ Len(calls) = 1
    /\ Len(pendingRoutes) = 1
    /\ Cardinality(discarded) = 1

=============================================================================
